---- MODULE Spec2Model ----
(***************************************************************************)
(* The annotation session of app.py (a Streamlit script) as a state        *)
(* machine.  Every user interaction runs the script once: the handler of   *)
(* the pressed button mutates st.session_state and calls st.rerun(), and    *)
(* the rerun dispatches on the page (main) and renders it.  One action of   *)
(* this module is one interaction together with the rerun it triggers.      *)
(*                                                                         *)
(* Strings of the source that are not ASCII are written in ASCII here:      *)
(*   age "15plus"   is the source's age value for 15 years and over,       *)
(*   age "under15"  is the source's age value for under 15 years,          *)
(*   sheet "adult" / "pediatric" are the two sheet names of                *)
(*   categories.xlsx, and the KTAS labels keep their English half.         *)
(***************************************************************************)
EXTENDS Integers, Sequences, FiniteSets, TLC

\* ------------------------------------------------------------------ bounds
\* Most rows of the data file.
MaxItems == 2
\* Last value of the wall clock (ticks); the clock starts at 1.
MaxClock == 3
\* Most blanks typed around the evaluator id (before and after it together).
MaxPad == 1

\* Clock ticks per hundredth of a second: round(elapsed, 2) keeps whole
\* hundredths, so a stored time is a multiple of TicksPerCenti ticks.
TicksPerCenti == 3

\* ------------------------------------------------------- Python values
\* Optional values: None is the empty tuple, any other value v is <<v>>.
None == <<>>
Some(v) == <<v>>
IsNone(x) == Len(x) = 0
Val(x) == x[1]

\* The empty dict {} and the empty list [].
EmptyDict == <<>>
EmptyList == <<>>

\* d.get(key, default) on a dict with hashable keys (a function).
Get(d, key, default) == IF key \in DOMAIN d THEN d[key] ELSE default

\* d[key] = value on such a dict.
Put(d, key, value) == (key :> value) @@ d

\* d.pop(key, default): the dict without the key.
Without(d, key) == [k \in (DOMAIN d) \ {key} |-> d[k]]

\* Text as typed or as read from a cell: `lead` blanks, then `core` (which
\* neither starts nor ends with a blank), then `trail` blanks.  A text of
\* blanks only has core "" and keeps its blanks in `lead`.
Text(s) == [lead |-> 0, core |-> s, trail |-> 0]
Padded(l, s, t) == [lead |-> l, core |-> s, trail |-> IF s = "" THEN 0 ELSE t]

\* str.strip(): the text without its leading and trailing blanks.
Strip(t) == t.core

\* Truth value of a str: the empty string is false.
Truthy(s) == s # ""

\* Dicts whose insertion order the code reads (list(d.keys())): a sequence of
\* <<key, value>> pairs in insertion order.
OHas(d, k) == \E i \in 1..Len(d) : d[i][1] = k
OGet(d, k) == d[CHOOSE i \in 1..Len(d) : d[i][1] = k][2]
OKeys(d) == [i \in 1..Len(d) |-> d[i][1]]
OPut(d, k, v) ==
    IF OHas(d, k)
    THEN [i \in 1..Len(d) |-> IF d[i][1] = k THEN <<k, v>> ELSE d[i]]
    ELSE Append(d, <<k, v>>)

InList(x, l) == \E i \in 1..Len(l) : l[i] = x

\* ------------------------------------------------------------ constants
KTAS_OPTIONS ==
    << "Level 1 - Resuscitation",
       "Level 2 - Emergency",
       "Level 3 - Urgent",
       "Level 4 - Less Urgent",
       "Level 5 - Non-Urgent" >>

STEP_MAJOR == 0
STEP_SUB == 1
STEP_KTAS == 2

\* ------------------------------------------------------- the two files
\* Rows of evaluation_data.xlsx as load_data returns them.  The index column
\* is the unique number of a dialogue; it is not sorted.  Ages rotate over
\* adult, pediatric and missing, starting at rotation r.
Ages == << "15plus", "under15", "" >>
IdAt(k) == (7 * k) % 10
load_data(n, r) ==
    [k \in 1..n |-> [id |-> IdAt(k), age |-> Ages[((k + r - 1) % 3) + 1]]]
DataFiles == { load_data(n, r) : n \in 0..MaxItems, r \in 0..2 }

\* A row of a sheet of categories.xlsx: the two cells as stored.
Row(major, sub) == [major |-> major, sub |-> sub]

\* categories.xlsx: None when the file is missing, else its sheets by name.
\* The adult sheet of the first file lists one sub-category twice and has a
\* row whose major cell holds one blank.
CatFileBoth ==
    Some([adult |-> << Row(Text("Chest Pain"), Text("Cardiac")),
                       Row(Padded(1, "", 0), Text("Other")),
                       Row(Padded(0, "Chest Pain", 1), Text("Cardiac")) >>,
          pediatric |-> << Row(Text("Fever"), Padded(1, "Viral", 0)) >>])
CatFileAdultOnly ==
    Some([adult |-> << Row(Text("Chest Pain"), Text("Cardiac")),
                       Row(Text("Chest Pain"), Text("Musculoskeletal")) >>])
CatFileMissing == None
CatFiles == { CatFileBoth, CatFileAdultOnly, CatFileMissing }

\* One step of the row loop of load_categories.
AddRow(cat_map, row) ==
    LET major == Strip(row.major)
        sub == Strip(row.sub)
        m1 == IF ~OHas(cat_map, major) THEN OPut(cat_map, major, EmptyList)
              ELSE cat_map
        subs == OGet(m1, major)
    IN IF ~InList(sub, subs) THEN OPut(m1, major, Append(subs, sub)) ELSE m1

RECURSIVE SheetMap(_)
SheetMap(rows) ==
    IF Len(rows) = 0 THEN <<>>
    ELSE AddRow(SheetMap(SubSeq(rows, 1, Len(rows) - 1)), rows[Len(rows)])

\* load_categories: None when the file is missing or holds neither sheet.
load_categories(file) ==
    IF IsNone(file) THEN None
    ELSE LET sheets == Val(file)
             a == IF "adult" \in DOMAIN sheets
                  THEN << <<"adult", SheetMap(sheets["adult"])>> >> ELSE <<>>
             p == IF "pediatric" \in DOMAIN sheets
                  THEN << <<"pediatric", SheetMap(sheets["pediatric"])>> >> ELSE <<>>
             all_cat_map == a \o p
         IN IF Len(all_cat_map) > 0 THEN Some(all_cat_map) ELSE None


\* ---------------------------------------------------------------- state
VARIABLES
    items,            \* rows of evaluation_data.xlsx (what load_data returns)
    catfile,          \* categories.xlsx
    now,              \* time.time(), in ticks
    page,             \* st.session_state, key by key
    evaluator_id,
    version,
    current_index,
    current_step,
    results,
    data,
    categories,
    step_start_time,
    start_index,
    temp_major,
    progress,         \* what st.progress shows / st.metric counts: <<completed, total>>
    df,               \* the result table the result page builds
    lastOp            \* the interaction of the last script run, with its inputs

session == << page, evaluator_id, version, current_index, current_step, results,
              data, categories, step_start_time, start_index, temp_major >>
vars == << items, catfile, now, page, evaluator_id, version, current_index,
           current_step, results, data, categories, step_start_time, start_index,
           temp_major, progress, df, lastOp >>

\* ------------------------------------------------------------- options
\* item_id = str(item["id"]) and f"{item_id}_temp": a key is the pair of the
\* number and the suffix after its digits.
item_id(item) == << item.id, "" >>
temp_key(item) == << item.id, "_temp" >>
EndsWithTemp(k) == k[2] = "_temp"

get_cat_map_for_item(cats, item) ==
    IF IsNone(cats) \/ Len(Val(cats)) = 0 THEN None
    ELSE LET all_cat_map == Val(cats)
             age == Get(item, "age", "")
             sheet == IF age = "under15" THEN "pediatric" ELSE "adult"
         IN IF OHas(all_cat_map, sheet) THEN Some(OGet(all_cat_map, sheet))
            ELSE None

\* Truth value of the cat_map: None and the empty dict are false.
CatMapTruthy(cat_map) == ~IsNone(cat_map) /\ Len(Val(cat_map)) > 0

get_sub_categories_for_major(cats, major_category, item) ==
    LET cat_map == get_cat_map_for_item(cats, item)
    IN IF CatMapTruthy(cat_map) /\ OHas(Val(cat_map), major_category)
       THEN OGet(Val(cat_map), major_category)
       ELSE Get(item, "sub_categories", EmptyList)

get_major_categories(cats, item) ==
    LET cat_map == get_cat_map_for_item(cats, item)
    IN IF CatMapTruthy(cat_map) THEN OKeys(Val(cat_map))
       ELSE Get(item, "major_categories", EmptyList)

\* The sub-category options of the Sub step: `if selected_major:` is the
\* truth value of temp_major (None and "" are false).
sub_options(cats, selected_major, item) ==
    IF ~IsNone(selected_major) /\ Truthy(Val(selected_major))
    THEN get_sub_categories_for_major(cats, Val(selected_major), item)
    ELSE Get(item, "sub_categories", EmptyList)

\* The options of the radio of the current step.
radio_options(step, cats, selected_major, item) ==
    IF step = STEP_MAJOR THEN get_major_categories(cats, item)
    ELSE IF step = STEP_SUB THEN sub_options(cats, selected_major, item)
    ELSE KTAS_OPTIONS

\* What the evaluator may click in a radio: its first or its last option.
Picks(options) == { options[i] : i \in {1, Len(options)} \cap (1..Len(options)) }

\* --------------------------------------------------------- result page
final_results(res) == [k \in { j \in DOMAIN res : ~EndsWithTemp(j) } |-> res[k]]

result_row(item, result, ev) ==
    [ index |-> item.id,
      evaluator |-> ev,
      age |-> Get(item, "age", ""),
      major |-> result["major"],
      sub |-> result["sub"],
      ktas |-> result["ktas"],
      time_major |-> Get(result, "time_major", ""),
      time_sub |-> Get(result, "time_sub", ""),
      time_ktas |-> Get(result, "time_ktas", "") ]

\* Mutant of result_rows: an item without a record gets a row of blanks.
result_rows_padded(dat, n, final, ev) ==
    [ i \in 1..n |->
        result_row(dat[i],
                   Get(final, item_id(dat[i]), [major |-> "", sub |-> "", ktas |-> ""]),
                   ev) ]

\* The rows loop of result_page over the first n items.
RECURSIVE result_rows(_, _, _, _)
result_rows(dat, n, final, ev) ==
    IF n = 0 THEN <<>>
    ELSE result_rows(dat, n - 1, final, ev)
         \o (IF item_id(dat[n]) \in DOMAIN final
             THEN << result_row(dat[n], final[item_id(dat[n])], ev) >>
             ELSE <<>>)

\* The number the evaluation page shows as completed.
evaluation_completed(res) == Cardinality(DOMAIN res)

\* The number the result page shows as completed.
result_completed(res) == Cardinality(DOMAIN final_results(res))

\* Mutant of Round2: the hundredths are cut off instead of rounded.
Round2_truncating(e) == TicksPerCenti * (e \div TicksPerCenti)

\* round(elapsed, 2): the nearest whole hundredth (no tick count is half way).
Round2(e) == TicksPerCenti * ((2 * e + TicksPerCenti) \div (2 * TicksPerCenti))

\* ---------------------------------------------------------------- rerun
\* The script run that follows an interaction: main dispatches on the page;
\* evaluation_page sends a session without data to the login page and a
\* finished one to the result page, and starts the step timer if it is unset.
RerunPage(pg, dat, idx) ==
    IF pg = "evaluation" /\ IsNone(dat) THEN "login"
    ELSE IF pg = "evaluation" /\ idx >= Len(Val(dat)) THEN "result"
    ELSE pg

RerunTimer(pg, sst, t) ==
    IF pg = "evaluation" /\ IsNone(sst) THEN Some(t) ELSE sst

RerunProgress(pg, dat, res) ==
    LET total == IF IsNone(dat) THEN 0 ELSE Len(Val(dat))
    IN IF pg = "evaluation" THEN << evaluation_completed(res), total >>
       ELSE IF pg = "result" THEN << result_completed(res), total >>
       ELSE <<>>

RerunTable(pg, dat, res, ev) ==
    LET rows == IF IsNone(dat) THEN <<>> ELSE Val(dat)
    IN IF pg = "result" /\ result_completed(res) > 0
       THEN result_rows(rows, Len(rows), final_results(res), ev)
       ELSE <<>>

\* The session after the rerun, given what the handler left.
Rerun(pg, ev, ver, idx, step, res, dat, cats, sst, sidx, tm) ==
    LET pg1 == RerunPage(pg, dat, idx)
    IN /\ page' = pg1
       /\ evaluator_id' = ev
       /\ version' = ver
       /\ current_index' = idx
       /\ current_step' = step
       /\ results' = res
       /\ data' = dat
       /\ categories' = cats
       /\ step_start_time' = RerunTimer(pg1, sst, now)
       /\ start_index' = sidx
       /\ temp_major' = tm
       /\ progress' = RerunProgress(pg1, dat, res)
       /\ df' = RerunTable(pg1, dat, res, ev)

\* A run in which no handler changed the session.
Same ==
    Rerun(page, evaluator_id, version, current_index, current_step, results,
          data, categories, step_start_time, start_index, temp_major)


\* ------------------------------------------------- init_session_state
defaults ==
    [ page |-> "login",
      evaluator_id |-> "",
      version |-> "ver1",
      current_index |-> 0,
      current_step |-> STEP_MAJOR,
      results |-> EmptyDict,
      data |-> None,
      categories |-> None,
      step_start_time |-> None,
      start_index |-> 0,
      temp_major |-> None ]

\* The session with the keys `present` kept and every other key at its default.
init_session_state(present, cur) ==
    [ k \in DOMAIN defaults |-> IF k \in present THEN cur[k] ELSE defaults[k] ]

\* Mutants of ResetDeletes: the reset spares the results, or the evaluator id.
ResetDeletes_keeping_results == (DOMAIN defaults) \ {"results"}
ResetDeletes_keeping_evaluator == (DOMAIN defaults) \ {"evaluator_id"}

\* The keys the reset button deletes: list(st.session_state.keys()).
ResetDeletes == DOMAIN defaults

Init ==
    /\ items \in DataFiles
    /\ catfile \in CatFiles
    /\ now = 1
    /\ page = defaults.page
    /\ evaluator_id = defaults.evaluator_id
    /\ version = defaults.version
    /\ current_index = defaults.current_index
    /\ current_step = defaults.current_step
    /\ results = defaults.results
    /\ data = defaults.data
    /\ categories = defaults.categories
    /\ step_start_time = defaults.step_start_time
    /\ start_index = defaults.start_index
    /\ temp_major = defaults.temp_major
    /\ progress = <<>>
    /\ df = <<>>
    /\ lastOp = [op |-> "init"]

\* ------------------------------------------------------------ login page
\* What the evaluator may type as the id.
TypedIds ==
    { Padded(b[1], c, b[2]) :
        b \in { x \in (0..MaxPad) \X (0..MaxPad) : x[1] + x[2] <= MaxPad },
        c \in {"", "E1"} }

\* st.number_input(min_value=1, max_value=total_count): the widget holds no
\* number outside its range (and with an empty range the page shows no button).
number_input_accepts(n, total_count) == n \in 1..total_count

\* The start button of the login page, with the id, version, start mode and
\* (in continue mode) the number typed.
StartEvaluation(typed, ver, start_mode, n) ==
    /\ page = "login"
    /\ start_mode = "first" => n = 1
    /\ lastOp' = [op |-> "start", evaluator_id |-> typed,
                  start_mode |-> start_mode, start_number |-> n]
    /\ LET total_count == Len(items)
           shown == start_mode = "first" \/ number_input_accepts(n, total_count)
           start_number == IF start_mode = "first" THEN 1 ELSE n
       IN IF shown /\ Truthy(Strip(typed))
          THEN Rerun("evaluation", Strip(typed), ver, start_number - 1, STEP_MAJOR,
                     results, Some(items), load_categories(catfile), Some(now),
                     start_number - 1, None)
          ELSE Same
    /\ UNCHANGED << items, catfile, now >>

\* ------------------------------------------------------- evaluation page
\* The three branches of the Next button on st.session_state.results.
on_major(res, item, selected_value, elapsed) ==
    Put(res, temp_key(item),
        [major |-> selected_value, time_major |-> Round2(elapsed)])

on_sub(res, item, selected_value, elapsed) ==
    LET temp == Get(res, temp_key(item), EmptyDict)
        temp2 == Put(Put(temp, "sub", selected_value), "time_sub", Round2(elapsed))
    IN Put(res, temp_key(item), temp2)

\* Mutant of on_ktas: the pending entry is popped and no record is stored.
on_ktas_dropping_record(res, item, selected_value, elapsed) ==
    Without(res, temp_key(item))

on_ktas(res, item, selected_value, elapsed) ==
    LET temp == Get(res, temp_key(item), EmptyDict)
    IN Put(Without(res, temp_key(item)), item_id(item),
           [ major |-> Get(temp, "major", ""),
             sub |-> Get(temp, "sub", ""),
             ktas |-> selected_value,
             time_major |-> Get(temp, "time_major", 0),
             time_sub |-> Get(temp, "time_sub", 0),
             time_ktas |-> Round2(elapsed) ])

\* What the Next button leaves in each key it writes.  `sel` is the radio's
\* value: None while nothing is selected, and then the button is disabled
\* and no key is written.
next_results(sel, step, res, item, elapsed) ==
    IF IsNone(sel) THEN res
    ELSE IF step = STEP_MAJOR THEN on_major(res, item, Val(sel), elapsed)
    ELSE IF step = STEP_SUB THEN on_sub(res, item, Val(sel), elapsed)
    ELSE on_ktas(res, item, Val(sel), elapsed)

\* Mutant of next_step: the Major confirm goes straight to the Triage step.
next_step_skipping_sub(sel, step) ==
    IF IsNone(sel) THEN step
    ELSE IF step = STEP_MAJOR THEN STEP_KTAS
    ELSE IF step = STEP_SUB THEN STEP_KTAS
    ELSE STEP_MAJOR

\* Mutant of next_step: the Sub confirm goes back to the Major step.
next_step_without_triage(sel, step) ==
    IF IsNone(sel) THEN step
    ELSE IF step = STEP_MAJOR THEN STEP_SUB
    ELSE STEP_MAJOR

\* Mutant of next_step: the step moves on without a selection too.
next_step_unguarded(sel, step) ==
    IF step = STEP_MAJOR THEN STEP_SUB
    ELSE IF step = STEP_SUB THEN STEP_KTAS
    ELSE STEP_MAJOR

next_step(sel, step) ==
    IF IsNone(sel) THEN step
    ELSE IF step = STEP_MAJOR THEN STEP_SUB
    ELSE IF step = STEP_SUB THEN STEP_KTAS
    ELSE STEP_MAJOR

\* Mutants of next_index: the pointer moves at every confirm, or never.
next_index_every_step(sel, step, idx) == IF ~IsNone(sel) THEN idx + 1 ELSE idx
next_index_stuck(sel, step, idx) == idx

next_index(sel, step, idx) ==
    IF ~IsNone(sel) /\ step = STEP_KTAS THEN idx + 1 ELSE idx

\* Mutant of next_temp_major: the Triage confirm does not clear it.
next_temp_major_kept(sel, step, tm) ==
    IF IsNone(sel) THEN tm
    ELSE IF step = STEP_MAJOR THEN sel
    ELSE tm

next_temp_major(sel, step, tm) ==
    IF IsNone(sel) THEN tm
    ELSE IF step = STEP_MAJOR THEN sel
    ELSE IF step = STEP_KTAS THEN None
    ELSE tm

next_start_time(sel, sst, t) == IF IsNone(sel) THEN sst ELSE Some(t)

\* elapsed = time.time() - (step_start_time or time.time())
elapsed_since(sst, t) == t - (IF IsNone(sst) \/ Val(sst) = 0 THEN t ELSE Val(sst))

\* The Next button with the radio's value.
ConfirmStep ==
    /\ page = "evaluation"
    /\ LET item == Val(data)[current_index + 1]
           options == radio_options(current_step, categories, temp_major, item)
           elapsed == elapsed_since(step_start_time, now)
       IN \E sel \in {None} \cup { Some(o) : o \in Picks(options) } :
            /\ lastOp' = [op |-> "confirm", selected |-> sel, elapsed |-> elapsed]
            /\ Rerun("evaluation", evaluator_id, version,
                     next_index(sel, current_step, current_index),
                     next_step(sel, current_step),
                     next_results(sel, current_step, results, item, elapsed),
                     data, categories,
                     next_start_time(sel, step_start_time, now),
                     start_index,
                     next_temp_major(sel, current_step, temp_major))
    /\ UNCHANGED << items, catfile, now >>

\* The "finish and save results" button of the evaluation page.
SaveAndFinish ==
    /\ page = "evaluation"
    /\ lastOp' = [op |-> "finalize"]
    /\ Rerun("result", evaluator_id, version, current_index, current_step, results,
             data, categories, step_start_time, start_index, temp_major)
    /\ UNCHANGED << items, catfile, now >>

\* ----------------------------------------------------------- result page
\* The button shown when nothing is completed yet.
ReturnToEvaluation ==
    /\ page = "result"
    /\ result_completed(results) = 0
    /\ lastOp' = [op |-> "return"]
    /\ Rerun("evaluation", evaluator_id, version, current_index, current_step,
             results, data, categories, step_start_time, start_index, temp_major)
    /\ UNCHANGED << items, catfile, now >>

\* The button shown when some but not all items are completed.
ContinueEvaluation ==
    /\ page = "result"
    /\ result_completed(results) # 0
    /\ result_completed(results) < Len(IF IsNone(data) THEN <<>> ELSE Val(data))
    /\ lastOp' = [op |-> "continue"]
    /\ Rerun("evaluation", evaluator_id, version, current_index, current_step,
             results, data, categories, step_start_time, start_index, temp_major)
    /\ UNCHANGED << items, catfile, now >>

\* ------------------------------------------------------------- sidebar
\* The reset button: every key is deleted, and the rerun's init_session_state
\* gives every missing key its default.
ResetAll ==
    /\ lastOp' = [op |-> "reset", from |-> page]
    /\ LET cur == [ page |-> page, evaluator_id |-> evaluator_id,
                    version |-> version, current_index |-> current_index,
                    current_step |-> current_step, results |-> results,
                    data |-> data, categories |-> categories,
                    step_start_time |-> step_start_time,
                    start_index |-> start_index, temp_major |-> temp_major ]
           s == init_session_state((DOMAIN defaults) \ ResetDeletes, cur)
       IN Rerun(s.page, s.evaluator_id, s.version, s.current_index, s.current_step,
                s.results, s.data, s.categories, s.step_start_time, s.start_index,
                s.temp_major)
    /\ UNCHANGED << items, catfile, now >>

\* ---------------------------------------------------------------- clock
Tick ==
    /\ now < MaxClock
    /\ now' = now + 1
    /\ lastOp' = [op |-> "tick"]
    /\ UNCHANGED << items, catfile, session, progress, df >>

Next ==
    \/ \E typed \in TypedIds, ver \in {"ver1", "ver2"},
          start_mode \in {"first", "continue"}, n \in 0..(MaxItems + 1) :
            StartEvaluation(typed, ver, start_mode, n)
    \/ ConfirmStep
    \/ SaveAndFinish
    \/ ReturnToEvaluation
    \/ ContinueEvaluation
    \/ ResetAll
    \/ Tick

Spec == Init /\ [][Next]_vars

\* The Next button pressed with a selection in the radio.
ConfirmSelected == ConfirmStep /\ ~IsNone(lastOp'.selected)

\* An evaluator who keeps confirming: whenever the Next button can be pressed
\* with a selection again and again, it is pressed; and from the result page
\* the evaluator goes back to the evaluation page when a button offers it.
LiveSpec ==
    /\ Spec
    /\ SF_vars(ConfirmSelected)
    /\ WF_vars(ReturnToEvaluation)
    /\ WF_vars(ContinueEvaluation)


\* ======================================================== the claims
\* The specification's words on the session: the pointer is current_index,
\* the step is current_step, the confirmed map holds the entries of results
\* keyed by an item id, and the pending selection of an item is temp_major
\* together with the entry keyed by the item id followed by "_temp".
Confirmed == { k[1] : k \in { j \in DOMAIN results : j[2] = "" } }
Record(id) == results[<< id, "" >>]
Pending == { k[1] : k \in { j \in DOMAIN results : j[2] = "_temp" } }
PendingOf(id) == results[<< id, "_temp" >>]
Finished(rec) ==
    DOMAIN rec = {"major", "sub", "ktas", "time_major", "time_sub", "time_ktas"}
CurrentItem == Val(data)[current_index + 1]

\* The step just taken was the Next button with a selection.
ConfirmTaken == lastOp'.op = "confirm" /\ ~IsNone(lastOp'.selected)
\* The step just taken was a start that left the login page.
StartTaken == lastOp'.op = "start" /\ page' # "login"

\* A stored time t is the whole number of hundredths nearest to e.
NearestCenti(t, e) ==
    /\ t % TicksPerCenti = 0
    /\ 2 * (t - e) < TicksPerCenti
    /\ 2 * (e - t) < TicksPerCenti

\* C1: a confirm at Major or at Sub leaves the pointer and the confirmed map
\* as they are, with no entry for the current item and only finished records
\* in it, and moves to the next step; the confirm at Triage moves the pointer
\* by exactly 1, returns to Major and adds exactly one record, keyed by the
\* id of the item that was at the pointer; a step that is no confirm, start
\* or reset changes neither the pointer nor the step nor the confirmed map.
C1_ThreeConfirmsAddOneRecord ==
    [][ /\ ConfirmTaken =>
             IF current_step = STEP_KTAS
             THEN /\ current_index' = current_index + 1
                  /\ current_step' = STEP_MAJOR
                  /\ CurrentItem.id \notin Confirmed
                  /\ Confirmed' = Confirmed \cup {CurrentItem.id}
                  /\ Cardinality(Confirmed') = Cardinality(Confirmed) + 1
                  /\ Finished(results'[<< CurrentItem.id, "" >>])
                  /\ \A j \in Confirmed : results'[<< j, "" >>] = Record(j)
             ELSE /\ current_index' = current_index
                  /\ current_step' = current_step + 1
                  /\ Confirmed' = Confirmed
                  /\ CurrentItem.id \notin Confirmed'
                  /\ \A j \in Confirmed' : Finished(results'[<< j, "" >>])
        /\ (~ConfirmTaken /\ lastOp'.op \notin {"start", "reset"}) =>
             /\ current_index' = current_index
             /\ current_step' = current_step
             /\ Confirmed' = Confirmed
      ]_vars

\* C1 witness: the Triage confirm of the first item of a session has acted.
C1_Witness ==
    /\ lastOp.op = "confirm"
    /\ ~IsNone(lastOp.selected)
    /\ current_step = STEP_MAJOR
    /\ current_index = start_index + 1
    /\ Confirmed = { Val(data)[current_index].id }

\* C2 (as claimed): the pending entry and the record hold the selected values
\* and the elapsed values as passed, and the evaluator id as given to start.
C2_Original ==
    [][ /\ StartTaken => Text(evaluator_id') = lastOp'.evaluator_id
        /\ ConfirmTaken =>
             LET id == CurrentItem.id
                 sel == Val(lastOp'.selected)
                 e == lastOp'.elapsed
             IN IF current_step = STEP_MAJOR
                THEN PendingOf(id)' = [major |-> sel, time_major |-> e]
                ELSE IF current_step = STEP_SUB
                THEN PendingOf(id)' =
                       [major |-> PendingOf(id).major,
                        time_major |-> PendingOf(id).time_major,
                        sub |-> sel, time_sub |-> e]
                ELSE results'[<< id, "" >>] =
                       [major |-> PendingOf(id).major,
                        sub |-> PendingOf(id).sub,
                        ktas |-> sel,
                        time_major |-> PendingOf(id).time_major,
                        time_sub |-> PendingOf(id).time_sub,
                        time_ktas |-> e]
      ]_vars

\* C2 (amended): the record created by the Triage confirm holds the values
\* selected at Major, Sub and Triage, the three elapsed times each rounded to
\* whole hundredths of a second, and every exported row carries the evaluator
\* id given to start without its leading and trailing blanks.  Step by step:
\* the Major confirm stores the selection and the rounded time as pending,
\* the Sub confirm adds its own to them, the Triage confirm moves the four
\* pending fields into the record with its own two, nothing but a confirm
\* touches the pending entry and nothing but a start changes the evaluator id.
C2_RecordHoldsConfirmedValues ==
    [][ /\ StartTaken =>
             /\ evaluator_id'= lastOp'.evaluator_id.core
             /\ evaluator_id' # ""
        /\ (lastOp'.op \notin {"start", "reset"}) => evaluator_id' = evaluator_id
        /\ \A i \in 1..Len(df') : df'[i].evaluator = evaluator_id'
        /\ ConfirmTaken =>
             LET id == CurrentItem.id
                 sel == Val(lastOp'.selected)
                 e == lastOp'.elapsed
             IN IF current_step = STEP_MAJOR
                THEN /\ DOMAIN PendingOf(id)' = {"major", "time_major"}
                     /\ PendingOf(id)'.major = sel
                     /\ NearestCenti(PendingOf(id)'.time_major, e)
                ELSE IF current_step = STEP_SUB
                THEN /\ DOMAIN PendingOf(id)' = {"major", "time_major", "sub", "time_sub"}
                     /\ PendingOf(id)'.major = PendingOf(id).major
                     /\ PendingOf(id)'.time_major = PendingOf(id).time_major
                     /\ PendingOf(id)'.sub = sel
                     /\ NearestCenti(PendingOf(id)'.time_sub, e)
                ELSE LET rec == results'[<< id, "" >>]
                     IN /\ Finished(rec)
                        /\ rec.major = PendingOf(id).major
                        /\ rec.sub = PendingOf(id).sub
                        /\ rec.ktas = sel
                        /\ rec.time_major = PendingOf(id).time_major
                        /\ rec.time_sub = PendingOf(id).time_sub
                        /\ NearestCenti(rec.time_ktas, e)
        /\ (~ConfirmTaken /\ lastOp'.op \notin {"start", "reset"}) =>
             /\ Pending' = Pending
             /\ \A id \in Pending : PendingOf(id)' = PendingOf(id)
      ]_vars

\* C2 witness: the Triage confirm has just created a record whose Triage time
\* is the rounding of, and differs from, the elapsed time of that confirm.
C2_Witness ==
    /\ lastOp.op = "confirm"
    /\ ~IsNone(lastOp.selected)
    /\ current_step = STEP_MAJOR
    /\ current_index > 0
    /\ Val(data)[current_index].id \in Confirmed
    /\ Record(Val(data)[current_index].id).time_ktas # lastOp.elapsed

\* C3: on every page that shows it, the completed count of progress() is the
\* number of finished records; the pending selection is not counted.
C3_ProgressCountsFinishedOnly ==
    page \in {"evaluation", "result"} =>
        progress[1] = Cardinality({ k \in DOMAIN results : Finished(results[k]) })

\* C4: a start that leaves the login page sets the pointer to the start index,
\* the step to Major, leaves no pending selection and no record, and the
\* progress shown right after it is (0, items.length).
C4_StartIsFresh ==
    [][ StartTaken =>
          /\ current_index' =
               (IF lastOp'.start_mode = "first" THEN 0 ELSE lastOp'.start_number - 1)
          /\ start_index' = current_index'
          /\ current_step' = STEP_MAJOR
          /\ IsNone(temp_major')
          /\ DOMAIN results' = {}
          /\ progress' = << 0, Len(items) >>
          /\ Val(data') = items
      ]_vars

\* C4 witness: a session has just been started at the second of two items.
C4_Witness ==
    /\ lastOp.op = "start"
    /\ lastOp.start_mode = "continue"
    /\ page = "evaluation"
    /\ current_index = 1
    /\ progress = << 0, 2 >>

\* C5: a start with a blank evaluator id, or with a start index outside
\* [0, items.length), stays on the login page and changes nothing of the session.
C5_BadStartFails ==
    [][ ( /\ lastOp'.op = "start"
          /\ \/ lastOp'.evaluator_id.core = ""
             \/ (IF lastOp'.start_mode = "first" THEN 0 ELSE lastOp'.start_number - 1)
                  \notin 0..(Len(items) - 1) )
        => /\ page' = "login"
           /\ UNCHANGED session
      ]_vars


\* The options the current step offers, and whether it offers none.
ShownOptions == radio_options(current_step, categories, temp_major, CurrentItem)
NothingOffered ==
    /\ ~IsNone(data)
    /\ current_index < Len(Val(data))
    /\ Len(ShownOptions) = 0

\* C6: a confirm without a selection changes neither the pointer nor the step
\* nor the pending selection nor the records, at any step; where the current
\* step offers no option every confirm is one without a selection, and no
\* step but a reset moves the pointer or the step.
C6_NullConfirmChangesNothing ==
    [][ /\ (lastOp'.op = "confirm" /\ IsNone(lastOp'.selected)) =>
             UNCHANGED << current_index, current_step, temp_major, results >>
        /\ (NothingOffered /\ lastOp'.op = "confirm") => IsNone(lastOp'.selected)
        /\ (NothingOffered /\ lastOp'.op # "reset") =>
             UNCHANGED << current_index, current_step >>
      ]_vars

\* C6 witness: a confirm without a selection has acted at the Sub step, where
\* a pending selection exists.
C6_Witness ==
    /\ lastOp.op = "confirm"
    /\ IsNone(lastOp.selected)
    /\ current_step = STEP_SUB
    /\ Pending # {}

\* C7: the finish button is there at every step of the evaluation page, and
\* the table of the result page has exactly one row per item with a finished
\* record, in the order of the items, each row holding that record; items
\* without a record and the pending selection have no row.
C7_FinalizeGivesConfirmedRows ==
    /\ page = "evaluation" => ENABLED SaveAndFinish
    /\ lastOp.op = "finalize" => page = "result"
    /\ page = "result" =>
         LET pos(id) == CHOOSE i \in 1..Len(Val(data)) : Val(data)[i].id = id
         IN /\ Len(df) = Cardinality(Confirmed)
            /\ \A i \in 1..Len(df) :
                 /\ df[i].index \in Confirmed
                 /\ df[i].major = Record(df[i].index).major
                 /\ df[i].sub = Record(df[i].index).sub
                 /\ df[i].ktas = Record(df[i].index).ktas
                 /\ df[i].time_major = Record(df[i].index).time_major
                 /\ df[i].time_sub = Record(df[i].index).time_sub
                 /\ df[i].time_ktas = Record(df[i].index).time_ktas
                 /\ df[i].age = Val(data)[pos(df[i].index)].age
            /\ \A i \in 1..(Len(df) - 1) : pos(df[i].index) < pos(df[i + 1].index)

\* C7 witness: finalize at the Sub step of the second of two items, with one
\* item confirmed: one row.
C7_Witness ==
    /\ lastOp.op = "finalize"
    /\ current_step = STEP_SUB
    /\ Pending # {}
    /\ Len(Val(data)) = 2
    /\ Len(df) = 1

\* C8: a step that is not the reset keeps every record as it is, and the
\* reset removes them all.
C8_RecordsAreStable ==
    [][ /\ lastOp'.op # "reset" =>
             \A id \in Confirmed :
                 /\ id \in Confirmed'
                 /\ results'[<< id, "" >>] = Record(id)
        /\ lastOp'.op = "reset" => Confirmed' = {}
      ]_vars

\* C8 witness: with a record in place the Major confirm of the next item has
\* acted.
C8_Witness ==
    /\ Confirmed # {}
    /\ lastOp.op = "confirm"
    /\ ~IsNone(lastOp.selected)
    /\ current_step = STEP_SUB

\* The taxonomy as loaded, and the bracket of an item: pediatric for the
\* under-15 age value, adult for every other or missing age value.
Taxonomy == IF IsNone(categories) THEN <<>> ELSE Val(categories)
Bracket(item) == IF Get(item, "age", "") = "under15" THEN "pediatric" ELSE "adult"

\* C9: the options offered are, at Major, the major keys of the taxonomy of the
\* item's bracket (the item's own list when the bracket has no entry or no
\* taxonomy was loaded); at Sub, the taxonomy's list for the pending major
\* (the item's own sub-list when the major is absent or no taxonomy was
\* loaded); at Triage, the fixed list of 5 levels.
C9_OptionsFollowTaxonomy ==
    page = "evaluation" =>
        LET b == Bracket(CurrentItem)
        IN IF current_step = STEP_MAJOR
           THEN ShownOptions =
                  (IF OHas(Taxonomy, b) THEN OKeys(OGet(Taxonomy, b))
                   ELSE Get(CurrentItem, "major_categories", <<>>))
           ELSE IF current_step = STEP_SUB
           THEN /\ ~IsNone(temp_major)
                /\ ShownOptions =
                     (IF OHas(Taxonomy, b) /\ OHas(OGet(Taxonomy, b), Val(temp_major))
                      THEN OGet(OGet(Taxonomy, b), Val(temp_major))
                      ELSE Get(CurrentItem, "sub_categories", <<>>))
           ELSE /\ ShownOptions = KTAS_OPTIONS
                /\ Len(ShownOptions) = 5

\* C10: the reset is there in every state, and the state it leaves is that
\* before the first start: the login page, a blank evaluator id, pointer 0,
\* step Major, no pending selection, no record, nothing loaded.
C10_ResetRestoresInitialState ==
    /\ ENABLED ResetAll
    /\ lastOp.op = "reset" =>
         /\ page = "login"
         /\ evaluator_id = ""
         /\ version = "ver1"
         /\ current_index = 0
         /\ start_index = 0
         /\ current_step = STEP_MAJOR
         /\ IsNone(temp_major)
         /\ DOMAIN results = {}
         /\ IsNone(data)
         /\ IsNone(categories)
         /\ IsNone(step_start_time)
         /\ progress = <<>>
         /\ df = <<>>

\* C10 witness: the reset has acted on the result page.
C10_Witness ==
    /\ lastOp.op = "reset"
    /\ lastOp.from = "result"


\* C11: at most one pending selection exists and it is that of the item at the
\* pointer; there is none at Major, at Sub it holds a major and no sub, at
\* Triage it holds a major and a sub; temp_major and the major of the pending
\* entry are the same value.
C11_OnePendingAtThePointer ==
    /\ Cardinality(Pending) <= 1
    /\ Pending # {} =>
         /\ ~IsNone(data)
         /\ current_index < Len(Val(data))
         /\ Pending = { CurrentItem.id }
    /\ current_step = STEP_MAJOR => (Pending = {} /\ IsNone(temp_major))
    /\ current_step = STEP_SUB =>
         /\ Pending # {}
         /\ "major" \in DOMAIN PendingOf(CurrentItem.id)
         /\ "sub" \notin DOMAIN PendingOf(CurrentItem.id)
    /\ current_step = STEP_KTAS =>
         /\ Pending # {}
         /\ {"major", "sub"} \subseteq DOMAIN PendingOf(CurrentItem.id)
    /\ current_step \in {STEP_SUB, STEP_KTAS} =>
         /\ ~IsNone(temp_major)
         /\ Val(temp_major) = PendingOf(CurrentItem.id).major

\* C11 witness: at the Triage step of the second item, with the first item's
\* record finished, the pending selection is that of the second item.
C11_Witness ==
    /\ current_step = STEP_KTAS
    /\ current_index = 1
    /\ Cardinality(Confirmed) = 1
    /\ Pending = { CurrentItem.id }


\* The step changes the evaluation allows: Major to Sub, Sub to Triage,
\* Triage to Major.
StepCycle ==
    { <<STEP_MAJOR, STEP_SUB>>, <<STEP_SUB, STEP_KTAS>>, <<STEP_KTAS, STEP_MAJOR>> }

\* C12: in every step taken after a start that is neither a start nor a
\* reset, the step either stays or moves along Major -> Sub -> Triage ->
\* Major; the pointer changes only in a Triage -> Major step, by exactly +1,
\* and never decreases; finalizing and coming back from the result page
\* change neither the step nor the pointer.
C12_StepsCycleAndPointerGrows ==
    [][ lastOp'.op \notin {"start", "reset"} =>
          /\ current_step' # current_step =>
               <<current_step, current_step'>> \in StepCycle
          /\ current_index' # current_index =>
               /\ current_step = STEP_KTAS
               /\ current_step' = STEP_MAJOR
               /\ current_index' = current_index + 1
          /\ current_index' >= current_index
          /\ lastOp'.op \in {"finalize", "return", "continue"} =>
               UNCHANGED << current_step, current_index >>
      ]_vars

\* C12 witness: the evaluator came back from the result page in the middle
\* of the second item, and the step and the pointer are where they were.
C12_Witness ==
    /\ lastOp.op = "continue"
    /\ page = "evaluation"
    /\ current_index = start_index + 1
    /\ current_step = STEP_SUB


\* The item ids of the loaded data are pairwise different.
UniqueIds ==
    \A i, j \in 1..Len(Val(data)) : Val(data)[i].id = Val(data)[j].id => i = j

\* The ids of the items at the 0-based indices start_index .. current_index - 1.
IdsPassed == { Val(data)[i].id : i \in (start_index + 1)..current_index }

\* C13: after a start, with unique item ids, the ids that have a confirmed
\* record are exactly the ids of the items from the start index up to the one
\* before the pointer; so their number is pointer - start index, and that is
\* at most the number of items.
C13_ConfirmedIsTheRangePassed ==
    (page # "login" /\ ~IsNone(data) /\ UniqueIds) =>
        /\ Confirmed = IdsPassed
        /\ Cardinality(Confirmed) = current_index - start_index
        /\ Cardinality(Confirmed) <= Len(Val(data))

\* C13 witness: a session started at the second of two items has confirmed
\* that item and nothing else.
C13_Witness ==
    /\ page # "login"
    /\ ~IsNone(data)
    /\ Len(Val(data)) = 2
    /\ start_index = 1
    /\ current_index = 2
    /\ Confirmed = { Val(data)[2].id }


\* The session is Complete: the pointer is at the number of items.
Complete == ~IsNone(data) /\ current_index = Len(Val(data))

\* The number of confirms behind the session: three for each item passed and
\* one for each step passed of the current item.
ConfirmsDone == 3 * current_index + current_step

\* C14: after a successful start, an evaluator who keeps confirming reaches
\* Complete (pointer = number of items), unless a reset intervenes or an empty
\* option list is offered; the confirms counted from the start are exactly
\* 3 * (number of items - start index), since a start sets the count to
\* 3 * start index, every confirm with a selection adds exactly one, nothing
\* else but a reset changes it, and Complete is the count 3 * number of items;
\* once Complete, the Next button is not there, and no step but a reset changes
\* the pointer, the step or the confirmed records.
C14_KeepConfirmingCompletes ==
    /\ (page # "login") ~> (Complete \/ NothingOffered \/ page = "login")
    /\ [](Complete => /\ ConfirmsDone = 3 * Len(Val(data))
                      /\ page = "result"
                      /\ ~ENABLED ConfirmStep)
    /\ [][ /\ StartTaken => ConfirmsDone' = 3 * start_index'
           /\ ConfirmTaken => ConfirmsDone' = ConfirmsDone + 1
           /\ (lastOp'.op \notin {"start", "reset"} /\ ~ConfirmTaken) =>
                ConfirmsDone' = ConfirmsDone
           /\ (Complete /\ lastOp'.op # "reset") =>
                /\ UNCHANGED << current_index, current_step >>
                /\ Confirmed' = Confirmed
                /\ \A id \in Confirmed : Record(id)' = Record(id)
         ]_vars

\* C14 witness: a session of two items started at the first one is Complete
\* by the confirm just taken, the sixth.
C14_Witness ==
    /\ Complete
    /\ Len(Val(data)) = 2
    /\ start_index = 0
    /\ lastOp.op = "confirm"
    /\ ConfirmsDone = 6
    /\ Cardinality(Confirmed) = 2

====
